---- MODULE Spec2Model ----
(***************************************************************************)
(* Model of src/sign.py: the Sign record, its save() pipeline (shortcut    *)
(* fields, custom-artwork pre-processing, conflict rescan, row write,      *)
(* cache invalidation, artwork job, permission resync) and the group       *)
(* permission store touched by assign_remove_perms.                        *)
(*                                                                         *)
(* A save is a small state machine over an in-memory instance (pc, scope,  *)
(* pending).  SaveStep performs one step; RunSave runs a save to its end.  *)
(* The sequential specifications take a whole save as one action; the      *)
(* stepwise specifications interleave the steps of several requests.       *)
(***************************************************************************)
EXTENDS Integers, Sequences, FiniteSets, TLC

VARIABLES signs, positions, next_id, sign_perms, position_perms, cache, jobs, inst, last, overlapped, started

vars == <<signs, positions, next_id, sign_perms, position_perms, cache, jobs, inst, last, overlapped, started>>

\* ------------------------------------------------------------------ bounds
MaxSigns == 3
MaxConcSigns == 2
MaxPermSigns == 2
MaxPairSigns == 2
MaxSessionSigns == 2
MaxRequests == 3
MaxFormSigns == 2
MaxSortSigns == 2
MaxSegments == 3
MaxSegLen == 2
MaxElements == 2
MaxSvgSigns == 1
MaxAutoSigns == 2
MaxNestSigns == 2

\* ------------------------------------------------------- reference data
\* None: a null foreign key / Python None.
None == 0

SignIds == 1..MaxSigns

\* Zones and projects are rows the sign only reads; zones 1 and 2 belong to
\* project 1, zone 3 to project 2.  Position p is created in zone p.
Positions == {1, 2}

ZoneProject(z) == IF z <= 2 THEN 1 ELSE 2

\* Position.save(): the row of a position in zone z, with
\* `self.project = self.zone.project`.
PositionRow(z) == [zone |-> z, project |-> ZoneProject(z)]

\* self.position.zone
PositionZone(db, p) == db.positions[p].zone

\* self.position.project
PositionProject(db, p) == db.positions[p].project

\* Workflow states 1 and 2 belong to phase 1, state 3 to phase 2.
States == {1, 2, 3}

StatePhase(s) == IF s <= 2 THEN 1 ELSE 2

Templates == {1, 2}

\* A number is a string: a sequence of characters.  Empty is the field default.
Empty == <<>>

Numbers == {<<"1">>, <<"2">>}

Quantities == {1, 2}

\* REVIEW_STATE_CHOICES
ReviewStates == {"A", "R", "N"}

\* Templates with SVG code (template 1) and without (template 2).
TemplateHasSvg(t) == t = 1

\* Groups of the permission store.
MemberGroup(ph) == <<"phase_member", ph>>

ViewerGroup(ph) == <<"phase_viewer", ph>>

StateViewerGroup(s) == <<"state_viewer", s>>

CacheLabels == {"sign_unicode", "sign_svg_as_png", "sign_message_html"}

JobDelaySeconds == 30

\* ------------------------------------------------------------- records
NoSign == [id |-> None]

NoInst == [pc |-> "none"]

\* The stored columns of an instance.
RowOf(me) ==
    [id |-> me.id, position |-> me.position, sign_template |-> me.sign_template,
     state |-> me.state, number |-> me.number, zone |-> me.zone,
     project |-> me.project, phase |-> me.phase,
     quantity |-> me.quantity, review_state |-> me.review_state,
     number_sort |-> me.number_sort,
     override_pdf |-> me.override_pdf,
     override_artwork_up_to_date |-> me.override_artwork_up_to_date,
     has_conflict_type_location_number |-> me.has_conflict_type_location_number,
     has_conflict_location_number |-> me.has_conflict_location_number,
     has_conflict_type_number |-> me.has_conflict_type_number]

\* Sign.__init__: the instance remembers the values it was built with.
SignInit(row) ==
    [id |-> row.id, position |-> row.position, sign_template |-> row.sign_template,
     state |-> row.state, number |-> row.number, zone |-> row.zone,
     project |-> row.project, phase |-> row.phase,
     quantity |-> row.quantity, review_state |-> row.review_state,
     number_sort |-> row.number_sort,
     override_pdf |-> row.override_pdf,
     override_artwork_up_to_date |-> row.override_artwork_up_to_date,
     has_conflict_type_location_number |-> row.has_conflict_type_location_number,
     has_conflict_location_number |-> row.has_conflict_location_number,
     has_conflict_type_number |-> row.has_conflict_type_number,
     original_phase_id |-> row.phase,
     original_state_id |-> row.state,
     original_zone_id |-> row.zone,
     original_sign_template_id |-> row.sign_template,
     original_number |-> row.number,
     original_override_pdf |-> row.override_pdf,
     is_new |-> (row.id = None),
     pc |-> "idle", scope |-> 0, pending |-> <<>>, log |-> <<>>,
     stack |-> {}, nested |-> 0]

\* Sign(position=p, sign_template=t, number=n, state=s): the shortcut columns
\* zone, project, phase are not given by callers, and no file is attached yet.
NewSign(p, t, n, s) ==
    SignInit([id |-> None, position |-> p, sign_template |-> t, state |-> s,
              number |-> n, zone |-> None, project |-> None, phase |-> None,
              quantity |-> 1, review_state |-> "N", number_sort |-> Empty,
              override_pdf |-> None, override_artwork_up_to_date |-> FALSE,
              has_conflict_type_location_number |-> FALSE,
              has_conflict_location_number |-> FALSE,
              has_conflict_type_number |-> FALSE])

\* The caller's edits of a form or an API update before save().
Edit(me, p, t, n, s, f) ==
    [me EXCEPT !.position = p, !.sign_template = t, !.number = n, !.state = s,
               !.override_pdf = f]

\* --------------------------------------------------- conflict scopes
\* Scope 1: (template, zone, number); 2: (zone, number); 3: (template, number).
Scopes == {1, 2, 3}

GetFlag(r, k) ==
    CASE k = 1 -> r.has_conflict_type_location_number
      [] k = 2 -> r.has_conflict_location_number
      [] k = 3 -> r.has_conflict_type_number

SetFlag(r, k, v) ==
    CASE k = 1 -> [r EXCEPT !.has_conflict_type_location_number = v]
      [] k = 2 -> [r EXCEPT !.has_conflict_location_number = v]
      [] k = 3 -> [r EXCEPT !.has_conflict_type_number = v]

\* `if self.sign_template and self.zone`, `if self.zone`, `if self.sign_template`
ScopeGuard(me, k) ==
    CASE k = 1 -> me.sign_template # None /\ me.zone # None
      [] k = 2 -> me.zone # None
      [] k = 3 -> me.sign_template # None

ScopeFilter_NoTemplate(r, k, proj, t, z, n) ==
    /\ r.project = proj
    /\ (k \in {1, 2} => r.zone = z)
    /\ r.number = n

\* Sign.objects.filter(project=..., [sign_template=...], [zone=...], number=...)
ScopeFilter(r, k, proj, t, z, n) ==
    /\ r.project = proj
    /\ (k \in {1, 3} => r.sign_template = t)
    /\ (k \in {1, 2} => r.zone = z)
    /\ r.number = n

\* ... .exclude(id=self.id): the ids of the matching rows.
Siblings(tbl, k, proj, t, z, n, self_id) ==
    {i \in DOMAIN tbl :
        /\ tbl[i] # NoSign
        /\ ScopeFilter(tbl[i], k, proj, t, z, n)
        /\ i # self_id}

\* A queryset once evaluated: the rows as loaded, in id order.
RECURSIVE Rows(_, _)
Rows(tbl, ids) ==
    IF ids = {} THEN <<>>
    ELSE LET i == CHOOSE x \in ids : \A y \in ids : x <= y
         IN <<tbl[i]>> \o Rows(tbl, ids \ {i})

\* ------------------------------------------------- permission store
\* guardian's remove_perm / assign_perm / get_perms on (group, perm, object).
RemovePerm(store, perm, group, obj) == store \ {<<group, perm, obj>>}

GetPerms(store, group, obj) ==
    {perm \in {"change_sign", "view_sign", "review_sign"} : <<group, perm, obj>> \in store}

OtherSignsAt_OtherPositions(tbl, p, self_id) ==
    {i \in DOMAIN tbl : tbl[i] # NoSign /\ tbl[i].position # p /\ i # self_id}

\* position.signs.exclude(pk=self.id)
OtherSignsAt(tbl, p, self_id) ==
    {i \in DOMAIN tbl : tbl[i] # NoSign /\ tbl[i].position = p /\ i # self_id}

RevokeOld_KeepPosition(db, me, old_state) ==
    [db EXCEPT !.sign_perms =
        @ \ {<<MemberGroup(StatePhase(old_state)), "change_sign", me.id>>,
             <<MemberGroup(StatePhase(old_state)), "view_sign", me.id>>,
             <<ViewerGroup(StatePhase(old_state)), "view_sign", me.id>>,
             <<StateViewerGroup(old_state), "view_sign", me.id>>,
             <<StateViewerGroup(old_state), "review_sign", me.id>>}]

\* The revoking half of assign_remove_perms (old_state is not None).
RevokeOld(db, me, old_state) ==
    LET old_phase_member_group == MemberGroup(StatePhase(old_state))
        old_phase_viewer_group == ViewerGroup(StatePhase(old_state))
        old_state_viewer_group == StateViewerGroup(old_state)
        sp1 == RemovePerm(db.sign_perms, "change_sign", old_phase_member_group, me.id)
        sp2 == RemovePerm(sp1, "view_sign", old_phase_member_group, me.id)
        sp3 == RemovePerm(sp2, "view_sign", old_phase_viewer_group, me.id)
        sp4 == RemovePerm(sp3, "view_sign", old_state_viewer_group, me.id)
        sp5 == RemovePerm(sp4, "review_sign", old_state_viewer_group, me.id)
        others == OtherSignsAt(db.signs, me.position, me.id)
        other_sign_phase_member_change ==
            \E o \in others : "change_sign" \in GetPerms(sp5, old_phase_member_group, o)
        other_sign_phase_member_view ==
            \E o \in others : "view_sign" \in GetPerms(sp5, old_phase_member_group, o)
        other_sign_phase_viewer ==
            \E o \in others : "view_sign" \in GetPerms(sp5, old_phase_viewer_group, o)
        other_sign_state_viewer ==
            \E o \in others : "view_sign" \in GetPerms(sp5, old_state_viewer_group, o)
        pp1 == IF ~other_sign_phase_member_change
               THEN RemovePerm(db.position_perms, "change_position", old_phase_member_group, me.position)
               ELSE db.position_perms
        pp2 == IF ~other_sign_phase_member_view
               THEN RemovePerm(pp1, "view_position", old_phase_member_group, me.position)
               ELSE pp1
        pp3 == IF ~other_sign_phase_viewer
               THEN RemovePerm(pp2, "view_position", old_phase_viewer_group, me.position)
               ELSE pp2
        pp4 == IF ~other_sign_state_viewer
               THEN RemovePerm(pp3, "view_position", old_state_viewer_group, me.position)
               ELSE pp3
    IN [db EXCEPT !.sign_perms = sp5, !.position_perms = pp4]

GrantNew_SignOnly(db, me) ==
    [db EXCEPT
       !.sign_perms = @ \cup
           {<<MemberGroup(StatePhase(me.state)), "change_sign", me.id>>,
            <<MemberGroup(StatePhase(me.state)), "view_sign", me.id>>,
            <<ViewerGroup(StatePhase(me.state)), "view_sign", me.id>>,
            <<StateViewerGroup(me.state), "view_sign", me.id>>,
            <<StateViewerGroup(me.state), "review_sign", me.id>>}]

\* The granting half of assign_remove_perms.
GrantNew(db, me) ==
    LET new_phase_member_group == MemberGroup(StatePhase(me.state))
        new_phase_viewer_group == ViewerGroup(StatePhase(me.state))
        new_state_viewer_group == StateViewerGroup(me.state)
    IN [db EXCEPT
          !.sign_perms = @ \cup
              {<<new_phase_member_group, "change_sign", me.id>>,
               <<new_phase_member_group, "view_sign", me.id>>,
               <<new_phase_viewer_group, "view_sign", me.id>>,
               <<new_state_viewer_group, "view_sign", me.id>>,
               <<new_state_viewer_group, "review_sign", me.id>>},
          !.position_perms = @ \cup
              {<<new_phase_member_group, "change_position", me.position>>,
               <<new_phase_member_group, "view_position", me.position>>,
               <<new_phase_viewer_group, "view_position", me.position>>,
               <<new_state_viewer_group, "view_position", me.position>>}]

AssignRemovePerms_GrantFirst(db, me, old_state) ==
    IF old_state # None THEN RevokeOld(GrantNew(db, me), me, old_state) ELSE GrantNew(db, me)

AssignRemovePerms_SkipIfHeld(db, me, old_state) ==
    IF <<StateViewerGroup(me.state), "review_sign", me.id>> \in db.sign_perms
    THEN IF old_state # None THEN RevokeOld(db, me, old_state) ELSE db
    ELSE GrantNew(IF old_state # None THEN RevokeOld(db, me, old_state) ELSE db, me)

\* Sign.assign_remove_perms(old_state)
AssignRemovePerms(db, me, old_state) ==
    GrantNew(IF old_state # None THEN RevokeOld(db, me, old_state) ELSE db, me)

\* ------------------------------------------------------------ save()
\* `if self.state_id and self.__original_state_id != self.state_id`
ReviewGuard(me) == me.state # None /\ me.original_state_id # me.state

\* reset review state if state changes
ResetReview(me) ==
    IF ReviewGuard(me) THEN [me EXCEPT !.review_state = "N"] ELSE me

\* zfill(15) and ljust(15, "0")
SortWidth == 15

RECURSIVE Zeros(_)
Zeros(k) == IF k <= 0 THEN <<>> ELSE <<"0">> \o Zeros(k - 1)

\* str.zfill(w) of a string without a sign prefix
Zfill(str, w) == Zeros(w - Len(str)) \o str

Ljust_Left(str, w) == Zeros(w - Len(str)) \o str

\* str.ljust(w, "0")
Ljust(str, w) == str \o Zeros(w - Len(str))

\* The index of the first "." of str, or 0.
FirstDot(str) ==
    IF \E i \in 1..Len(str) : str[i] = "."
    THEN CHOOSE i \in 1..Len(str) : str[i] = "." /\ \A j \in 1..(i - 1) : str[j] # "."
    ELSE 0

\* num_split[0]
LeftPart(str) ==
    IF FirstDot(str) = 0 THEN str ELSE SubSeq(str, 1, FirstDot(str) - 1)

\* ".".join(num_split[1:]), or "" without a dot
RightPart(str) ==
    IF FirstDot(str) = 0 THEN <<>> ELSE SubSeq(str, FirstDot(str) + 1, Len(str))

\* "{0}.{1}".format(left.zfill(15), right.ljust(15, "0"))
Encode(str) == Zfill(LeftPart(str), SortWidth) \o <<".">> \o Ljust(RightPart(str), SortWidth)

\* `if self.__original_number != self.number` in the branch of a sign with an id
ResortGuard(me) == me.original_number # me.number

\* update sorting methods if changed: number_sort
SortFields(me) ==
    IF me.id # None
    THEN IF me.number # Empty
         THEN IF ResortGuard(me) THEN [me EXCEPT !.number_sort = Encode(me.number)] ELSE me
         ELSE [me EXCEPT !.number_sort = Empty]
    ELSE IF me.number # Empty
         THEN [me EXCEPT !.number_sort = Encode(me.number)]
         ELSE [me EXCEPT !.number_sort = Empty]

RescanGuard_StateChange(me) ==
    me.is_new \/ me.original_state_id # me.state

\* The condition that starts the conflict rescan.
RescanGuard(me) ==
    \/ me.is_new
    \/ me.original_number # me.number
    \/ me.original_sign_template_id # me.sign_template
    \/ me.original_zone_id # me.zone

\* The condition that starts the permission resync.
ResyncGuard(me) ==
    me.state # None /\ (me.is_new \/ me.original_state_id # me.state)

\* State.objects.filter(pk=self.__original_state_id): the old state, or None.
OldState(me) == IF me.original_state_id \in States THEN me.original_state_id ELSE None

\* The cache maps each key that is set to the byte length of its value.
EmptyCache == [k \in {} |-> 0]

\* cache.get(key) as a truth value: the key is set and its value is not empty.
CacheHit(c, key) == key \in DOMAIN c /\ c[key] > 0

\* cache.set(key, value, None)
CacheSet(c, key, length) == [k \in DOMAIN c \cup {key} |-> IF k = key THEN length ELSE c[k]]

\* cache.delete_many(keys)
CacheDeleteMany(c, keys) == [k \in DOMAIN c \ keys |-> c[k]]

CacheKeys_LabelOnly(id) == {<<"sign_unicode", id>>}

\* The keys save() deletes from the cache.
CacheKeys(id) == {<<label, id>> : label \in CacheLabels}

\* jobber.send(name='sign:generate_artwork', sign_ids=[id], delay_seconds=30)
ArtworkJob(id) ==
    [name |-> "sign:generate_artwork", sign_ids |-> <<id>>, delay_seconds |-> JobDelaySeconds]

AfterWrite_NoJob(pc) ==
    CASE pc = "write" -> "cache"
      [] pc = "cache" -> "perms"
      [] pc = "perms" -> "done"

AfterWrite_PermsFirst(pc) ==
    CASE pc = "write" -> "perms"
      [] pc = "perms" -> "cache"
      [] pc = "cache" -> "job"
      [] pc = "job" -> "done"

\* The statements of save() from super().save() on, in program order: the
\* row write, cache.delete_many, jobber.send, assign_remove_perms, return.
AfterWrite(pc) ==
    CASE pc = "write" -> "cache"
      [] pc = "cache" -> "job"
      [] pc = "job" -> "perms"
      [] pc = "perms" -> "done"

\* After scope k of the rescan: the next scope, or the row write.
NextScope(me) ==
    IF me.scope < 3
    THEN [me EXCEPT !.scope = @ + 1, !.pc = "scope", !.pending = <<>>]
    ELSE [me EXCEPT !.scope = 0, !.pc = "write", !.pending = <<>>]

PrevQuery_Current(db, me) ==
    Siblings(db.signs, me.scope, me.project, me.sign_template, me.zone, me.number, me.id)

\* The sibling query against the previous tuple (the values of __init__).
PrevQuery(db, me) ==
    Siblings(db.signs, me.scope, me.project, me.original_sign_template_id,
             me.original_zone_id, me.original_number, me.id)

CurQuery_Original(db, me) ==
    Siblings(db.signs, me.scope, me.project, me.original_sign_template_id,
             me.original_zone_id, me.original_number, me.id)

\* The sibling query against the current tuple.
CurQuery(db, me) ==
    Siblings(db.signs, me.scope, me.project, me.sign_template, me.zone, me.number, me.id)

ToClear_Any(db, me) ==
    Rows(db.signs, PrevQuery(db, me))

\* `if len(qs) == 1`: the siblings whose flag the first loop clears.
ToClear(db, me) ==
    LET qs == PrevQuery(db, me)
    IN IF Cardinality(qs) = 1 THEN Rows(db.signs, qs) ELSE <<>>

NeedsFlag_Inverted(row, k) == GetFlag(row, k)

\* `if not sign.has_conflict_...`: whether the second loop writes this sibling.
NeedsFlag(row, k) == ~GetFlag(row, k)

\* `self.has_conflict_... = True` after the second loop.
FlagSelf(me) == SetFlag(me, me.scope, TRUE)

RECURSIVE RunSave(_, _)
RECURSIVE SaveStep(_, _)

\* The larger of two numbers.
Larger(a, b) == IF a >= b THEN a ELSE b

\* sign.save() of a sibling loaded by the rescan: a whole save of a new
\* in-memory instance of that row, with one flag changed.  stack: the sibling
\* saves in progress around this one, each with the stored rows it started
\* from.  A sibling save that starts from the rows that the same sibling save
\* around it started from repeats it without end, until the interpreter
\* raises its recursion error (pc "raised").
SiblingSave(db, row, k, v, stack) ==
    LET frame == <<row.id, k, v, db.signs, db.positions>>
    IN IF frame \in stack
       THEN [db |-> db, me |-> [SignInit(row) EXCEPT !.pc = "raised"]]
       ELSE RunSave(db, [SetFlag(SignInit(row), k, v) EXCEPT
                            !.pc = "start", !.stack = stack \cup {frame}])

\* The saving instance after the sibling save r: the error of the sibling
\* save propagates; nested is the depth of the saves under this one.
AfterSibling(me, r, next) ==
    IF r.me.pc = "raised"
    THEN [me EXCEPT !.pc = "raised", !.nested = Larger(@, 1 + r.me.nested)]
    ELSE [next EXCEPT !.nested = Larger(@, 1 + r.me.nested)]

\* One step of save() on instance me against the stored state db.
SaveStep(db, me) ==
    CASE me.pc = "start" ->
            \* shortcut fields
            LET z == PositionZone(db, me.position)
                m1 == [me EXCEPT !.zone = z, !.project = PositionProject(db, me.position)]
                m2 == IF me.state # None
                      THEN [m1 EXCEPT !.phase = StatePhase(me.state)] ELSE m1
            IN [db |-> db,
                me |-> [m2 EXCEPT !.pc = "artwork", !.log = Append(@, "shortcut")]]
      [] me.pc = "artwork" ->
            \* custom artwork: PDF -> PNG before anything is written
            IF me.override_pdf # None /\ me.original_override_pdf # me.override_pdf
            THEN [db |-> db,
                  me |-> [me EXCEPT !.override_artwork_up_to_date = TRUE,
                                    !.pc = "sort", !.log = Append(@, "artwork")]]
            ELSE [db |-> db, me |-> [me EXCEPT !.pc = "sort"]]
      [] me.pc = "sort" ->
            \* review reset, then the sort fields
            [db |-> db, me |-> [SortFields(ResetReview(me)) EXCEPT !.pc = "rescan"]]
      [] me.pc = "rescan" ->
            IF RescanGuard(me)
            THEN [db |-> db,
                  me |-> [me EXCEPT !.pc = "scope", !.scope = 1,
                                    !.log = Append(@, "rescan")]]
            ELSE [db |-> db, me |-> [me EXCEPT !.pc = "write"]]
      [] me.pc = "scope" ->
            \* clear the own flag, query the siblings of the previous tuple
            IF ScopeGuard(me, me.scope)
            THEN LET m1 == SetFlag(me, me.scope, FALSE)
                     todo == ToClear(db, m1)
                 IN [db |-> db,
                     me |-> [m1 EXCEPT !.pending = todo,
                                       !.pc = IF todo = <<>> THEN "query" ELSE "clear"]]
            ELSE [db |-> db, me |-> NextScope(me)]
      [] me.pc = "clear" ->
            \* sign.has_conflict_... = False; sign.save()
            LET row == Head(me.pending)
                rest == Tail(me.pending)
                r == SiblingSave(db, row, me.scope, FALSE, me.stack)
            IN [db |-> r.db,
                me |-> AfterSibling(me, r,
                          [me EXCEPT !.pending = rest,
                                     !.pc = IF rest = <<>> THEN "query" ELSE "clear"])]
      [] me.pc = "query" ->
            \* query the siblings of the current tuple
            LET qs == CurQuery(db, me)
            IN IF qs = {}
               THEN [db |-> db, me |-> NextScope(me)]
               ELSE [db |-> db,
                     me |-> [me EXCEPT !.pending = Rows(db.signs, qs), !.pc = "set"]]
      [] me.pc = "set" ->
            \* if not sign.has_conflict_...: sign.has_conflict_... = True; sign.save()
            LET row == Head(me.pending)
                rest == Tail(me.pending)
                next == IF rest = <<>> THEN NextScope(FlagSelf(me))
                        ELSE [me EXCEPT !.pending = rest]
            IN IF NeedsFlag(row, me.scope)
               THEN LET r == SiblingSave(db, row, me.scope, TRUE, me.stack)
                    IN [db |-> r.db, me |-> AfterSibling(me, r, next)]
               ELSE [db |-> db, me |-> next]
      [] me.pc = "write" ->
            \* super().save(): INSERT with the next id, or UPDATE of every column
            LET id == IF me.id = None THEN db.next_id ELSE me.id
                m1 == [me EXCEPT !.id = id]
            IN [db |-> [db EXCEPT !.signs[id] = RowOf(m1),
                                  !.next_id = IF me.id = None THEN @ + 1 ELSE @],
                me |-> [m1 EXCEPT !.pc = AfterWrite("write"), !.log = Append(@, "write")]]
      [] me.pc = "cache" ->
            [db |-> [db EXCEPT !.cache = CacheDeleteMany(@, CacheKeys(me.id))],
             me |-> [me EXCEPT !.pc = AfterWrite("cache"), !.log = Append(@, "cache")]]
      [] me.pc = "job" ->
            [db |-> [db EXCEPT !.jobs = @ \cup {ArtworkJob(me.id)}],
             me |-> [me EXCEPT !.pc = AfterWrite("job"), !.log = Append(@, "job")]]
      [] me.pc = "perms" ->
            IF ResyncGuard(me)
            THEN [db |-> AssignRemovePerms(db, me, OldState(me)),
                  me |-> [me EXCEPT !.pc = AfterWrite("perms"), !.log = Append(@, "perms")]]
            ELSE [db |-> db, me |-> [me EXCEPT !.pc = AfterWrite("perms")]]

\* save() from its current step to its return.
RunSave(db, me) ==
    IF me.pc \in {"done", "raised"} THEN [db |-> db, me |-> me]
    ELSE LET s == SaveStep(db, me) IN RunSave(s.db, s.me)

\* ------------------------------------------------------------ state
\* last: the request that saved last, the id it saved and the stored row of
\* that sign before the save (NoSign for a new sign or a stepwise request).
\* overlapped: some request began while another was in flight.
\* started: the number of stepwise requests begun so far.
\* The two request slots of the stepwise specifications; the sequential
\* specifications use slot 1 alone.
Procs == {1, 2}

Db ==
    [signs |-> signs, positions |-> positions, next_id |-> next_id, sign_perms |-> sign_perms,
     position_perms |-> position_perms, cache |-> cache, jobs |-> jobs]

Store(db) ==
    /\ signs' = db.signs
    /\ positions' = db.positions
    /\ next_id' = db.next_id
    /\ sign_perms' = db.sign_perms
    /\ position_perms' = db.position_perms
    /\ cache' = db.cache
    /\ jobs' = db.jobs

Exists(id) == id \in DOMAIN signs /\ signs[id] # NoSign

Init ==
    /\ signs = [i \in SignIds |-> NoSign]
    /\ positions = [p \in Positions |-> PositionRow(p)]
    /\ next_id = 1
    /\ sign_perms = {}
    /\ position_perms = {}
    /\ cache = EmptyCache
    /\ jobs = {}
    /\ inst = [q \in Procs |-> NoInst]
    /\ last = [op |-> "none", id |-> None, was |-> NoSign]
    /\ overlapped = FALSE
    /\ started = 0

\* The instance as the caller holds it once save() has returned.
Returned(me) == [me EXCEPT !.pc = "idle", !.log = <<>>, !.nested = 0]

\* ------------------------------------- requests, one save as one action
\* A request that builds a new sign, attaches file f (or none) and saves it once.
Create(p, t, n, s, f, cap) ==
    /\ next_id <= cap
    /\ LET r == RunSave(Db, [Edit(NewSign(p, t, n, s), p, t, n, s, f) EXCEPT !.pc = "start"])
       IN /\ Store(r.db)
          /\ last' = [op |-> "create", id |-> r.me.id, was |-> NoSign]
    /\ UNCHANGED <<inst, overlapped, started>>

\* A request that loads sign id from storage, edits it and saves it once.
Update(id, p, t, n, s, f) ==
    /\ Exists(id)
    /\ LET r == RunSave(Db, [Edit(SignInit(signs[id]), p, t, n, s, f) EXCEPT !.pc = "start"])
       IN /\ Store(r.db)
          /\ last' = [op |-> "update", id |-> id, was |-> signs[id]]
    /\ UNCHANGED <<inst, overlapped, started>>

\* ------------------------- sessions: one instance saved more than once
\* Build a new sign, save it, and keep the instance.
SessionCreate(p, t, n, s, f, cap) ==
    /\ next_id <= cap
    /\ LET r == RunSave(Db, [Edit(NewSign(p, t, n, s), p, t, n, s, f) EXCEPT !.pc = "start"])
       IN /\ Store(r.db)
          /\ inst' = [inst EXCEPT ![1] = Returned(r.me)]
          /\ last' = [op |-> "create", id |-> r.me.id, was |-> NoSign]
    /\ UNCHANGED <<overlapped, started>>

\* Load sign id (dropping the instance held before), edit, save, keep it.
SessionUpdate(id, p, t, n, s, f) ==
    /\ Exists(id)
    /\ LET r == RunSave(Db, [Edit(SignInit(signs[id]), p, t, n, s, f) EXCEPT !.pc = "start"])
       IN /\ Store(r.db)
          /\ inst' = [inst EXCEPT ![1] = Returned(r.me)]
          /\ last' = [op |-> "update", id |-> id, was |-> signs[id]]
    /\ UNCHANGED <<overlapped, started>>

\* Edit the instance held since the last save and save it again.
SessionResave(p, t, n, s, f) ==
    /\ inst[1] # NoInst
    /\ LET r == RunSave(Db, [Edit(inst[1], p, t, n, s, f) EXCEPT !.pc = "start"])
       IN /\ Store(r.db)
          /\ inst' = [inst EXCEPT ![1] = Returned(r.me)]
          /\ last' = [op |-> "resave", id |-> r.me.id, was |-> signs[inst[1].id]]
    /\ UNCHANGED <<overlapped, started>>

\* ------------------------------------------- requests with every field
\* The fields a form or API request sets on the instance before save().
Apply(me, e) ==
    [me EXCEPT !.position = e.position, !.sign_template = e.sign_template,
               !.number = e.number, !.state = e.state, !.override_pdf = e.override_pdf,
               !.quantity = e.quantity, !.review_state = e.review_state]

\* The labels of the cache entries present for sign id.
CachedLabels(id) == {label \in CacheLabels : <<label, id>> \in DOMAIN cache}

\* Build a new sign from the fields e and save it; keep: the caller goes on
\* using the instance.
FormCreate(e, cap, keep) ==
    /\ next_id <= cap
    /\ e.position \in DOMAIN positions
    /\ LET new == NewSign(e.position, e.sign_template, e.number, e.state)
           r == RunSave(Db, [Apply(new, e) EXCEPT !.pc = "start"])
       IN /\ Store(r.db)
          /\ inst' = IF keep THEN [inst EXCEPT ![1] = Returned(r.me)] ELSE inst
          /\ last' = [op |-> "create", id |-> r.me.id, was |-> NoSign, cached |-> {},
                      review |-> e.review_state, nested |-> r.me.nested,
                      raised |-> (r.me.pc = "raised")]
    /\ UNCHANGED <<overlapped, started>>

\* Load sign id from storage, set the fields e and save it.
FormUpdate(id, e, keep) ==
    /\ Exists(id)
    /\ e.position \in DOMAIN positions
    /\ LET r == RunSave(Db, [Apply(SignInit(signs[id]), e) EXCEPT !.pc = "start"])
       IN /\ Store(r.db)
          /\ inst' = IF keep THEN [inst EXCEPT ![1] = Returned(r.me)] ELSE inst
          /\ last' = [op |-> "update", id |-> id, was |-> signs[id],
                      cached |-> CachedLabels(id), review |-> e.review_state,
                      nested |-> r.me.nested, raised |-> (r.me.pc = "raised")]
    /\ UNCHANGED <<overlapped, started>>

\* Set the fields e on the instance held since the last save and save it again.
FormResave(e) ==
    /\ inst[1] # NoInst
    /\ Exists(inst[1].id)
    /\ e.position \in DOMAIN positions
    /\ LET r == RunSave(Db, [Apply(inst[1], e) EXCEPT !.pc = "start"])
       IN /\ Store(r.db)
          /\ inst' = [inst EXCEPT ![1] = Returned(r.me)]
          /\ last' = [op |-> "resave", id |-> r.me.id, was |-> signs[inst[1].id],
                      cached |-> CachedLabels(inst[1].id), review |-> e.review_state,
                      nested |-> r.me.nested, raised |-> (r.me.pc = "raised")]
    /\ UNCHANGED <<overlapped, started>>

\* ------------------------------------------------------------ delete
Orphaned_Always(tbl, p, id) == TRUE

\* `if not sign.position.signs.all().exclude(pk=sign.id)`
Orphaned(tbl, p, id) == OtherSignsAt(tbl, p, id) = {}

\* position.delete(): the row goes, and with it (on_delete=CASCADE) every
\* sign that still references it.
DeletePosition(db, p) ==
    [db EXCEPT !.positions = [q \in DOMAIN @ \ {p} |-> @[q]],
               !.signs = [i \in DOMAIN @ |->
                             IF @[i] # NoSign /\ @[i].position = p THEN NoSign ELSE @[i]]]

\* clean_up_position, the post_delete receiver of Sign.
CleanUpPosition(db, row) ==
    IF Orphaned(db.signs, row.position, row.id)
    THEN DeletePosition(db, row.position)
    ELSE db

\* sign.delete() of stored sign id: the row is deleted, then post_delete runs.
DeleteSign(id) ==
    /\ Exists(id)
    /\ Store(CleanUpPosition([Db EXCEPT !.signs[id] = NoSign], signs[id]))
    /\ last' = [op |-> "delete", id |-> id, was |-> signs[id], cached |-> CachedLabels(id)]
    /\ UNCHANGED <<inst, overlapped, started>>

\* ------------------------------------------------------ state action
\* A state action loads sign id and calls sign.assign_remove_perms(old_state)
\* with the state the sign is leaving, or None.
Resync(id, old_state) ==
    /\ Exists(id)
    /\ signs[id].state # None
    /\ Store(AssignRemovePerms(Db, SignInit(signs[id]), old_state))
    /\ last' = [op |-> "resync", id |-> id, was |-> signs[id], old_state |-> old_state]
    /\ UNCHANGED <<inst, overlapped, started>>

\* ------------------------------------------------------ cached renders
\* `if len(r_content) > 150`
CacheThreshold == 150

\* The byte lengths of the bodies the conversion service answers with: PNG
\* bytes or a short error body.
Responses == {CacheThreshold, CacheThreshold + 1}

Cacheable_Inclusive(length) == length >= CacheThreshold

\* `if len(r_content) > 150: cache.set(key, r_content, None)`
Cacheable(length) == length > CacheThreshold

SvgAsPng_AlwaysGenerate(c, id, generate, response) ==
    LET key == <<"sign_svg_as_png", id>>
    IN IF CacheHit(c, key)
       THEN [cache |-> c, posted |-> FALSE, result |-> [from |-> "cache", length |-> c[key]]]
       ELSE [cache |-> IF Cacheable(response) THEN CacheSet(c, key, response) ELSE c,
             posted |-> TRUE,
             result |-> [from |-> "service", length |-> response]]

\* Sign.svg_as_png(generate) of stored sign id: the cached bytes if there are
\* any; otherwise, with generate=False, the static placeholder image;
\* otherwise one POST to the conversion service, whose body is returned, and
\* cached when it is long enough.  posted: the POST was made.  (svg_code(),
\* called for the dimensions of the payload, is SvgCode below.)
SvgAsPng(c, id, generate, response) ==
    LET key == <<"sign_svg_as_png", id>>
    IN IF CacheHit(c, key)
       THEN [cache |-> c, posted |-> FALSE, result |-> [from |-> "cache", length |-> c[key]]]
       ELSE IF ~generate
       THEN [cache |-> c, posted |-> FALSE, result |-> [from |-> "static"]]
       ELSE [cache |-> IF Cacheable(response) THEN CacheSet(c, key, response) ELSE c,
             posted |-> TRUE,
             result |-> [from |-> "service", length |-> response]]

\* A page asks for the PNG of sign id.
RenderPng(id, generate, response) ==
    /\ Exists(id)
    /\ LET r == SvgAsPng(cache, id, generate, response)
       IN /\ cache' = r.cache
          /\ last' = [op |-> "png", id |-> id, was |-> NoSign, cached |-> CachedLabels(id),
                      generate |-> generate, posted |-> r.posted, result |-> r.result]
    /\ UNCHANGED <<signs, positions, next_id, sign_perms, position_perms, jobs, inst,
                   overlapped, started>>

\* A page shows the label (__unicode__) or the message summary (message_html)
\* of sign id: a cache miss computes the text, here a non-empty one, and
\* caches it.
RenderText(id, label) ==
    /\ Exists(id)
    /\ label \in {"sign_unicode", "sign_message_html"}
    /\ cache' = IF CacheHit(cache, <<label, id>>) THEN cache
                ELSE CacheSet(cache, <<label, id>>, 1)
    /\ last' = [op |-> "render", id |-> id, was |-> NoSign, cached |-> CachedLabels(id)]
    /\ UNCHANGED <<signs, positions, next_id, sign_perms, position_perms, jobs, inst,
                   overlapped, started>>

\* ------------------------------------------------------ svg_code
\* The SVG code of a template, as far as svg_code reads it: the opening tags
\* in document order, each with a name and an id attribute ("" when it has
\* none, and then some other attribute), how the text is laid out in lines,
\* and whether the text contains a brace.  Layouts: the whole document on one
\* line; each tag, with its attributes, on a line of its own; each attribute
\* on a line of its own after the tag name, as SVG editors write it.
TagNames == {"g", "text"}

TagIds == {"", "repeat", "level"}

Elements == [name : TagNames, id : TagIds]

Layouts == {"one line", "tag per line", "attribute per line"}

SvgTemplates ==
    [elements : UNION {[1..n -> Elements] : n \in 1..MaxElements},
     layout : Layouts, braces : BOOLEAN]

\* self.attributes().keys(): 'number' is always a key; 'level' is one when the
\* attribute is resolved for the sign.
SlugSets == {{"number"}, {"number", "level"}}

\* `if len(r_text) > 150:`
ExpandThreshold == 150

\* The answers of the expansion service: the length of the text and whether
\* it contains a brace.
Expansions == [length : {ExpandThreshold, ExpandThreshold + 1}, braces : BOOLEAN]

\* re.compile(r"<g .*?id\w*?=\w*?('|\")x('|\").*?>").search(template): "<g "
\* and, later on the same line ('.' matches no line break), an attribute
\* whose name ends with id and whose quoted value is x, and then a '>'.
\* The 'id' may be that of the g tag or of any tag after it on the line.
RegexSearch(template, x) ==
    \E i \in DOMAIN template.elements, j \in DOMAIN template.elements :
        /\ i <= j
        /\ template.elements[i].name = "g"
        /\ template.elements[j].id = x
        /\ template.layout # "attribute per line"
        /\ template.layout = "tag per line" => i = j

\* The detection of a dynamic template in svg_code.
UseExpander(template, slugs) ==
    \/ RegexSearch(template, "repeat")
    \/ \E k \in slugs : RegexSearch(template, k)

\* Sign.svg_code() on a fresh instance of a stored row: empty when the sign
\* has no template with SVG code; a dynamic template is posted to /expand/
\* and replaced by the answer when that is long enough; placeholders are
\* substituted when the text then contains a brace.
SvgCodeOf(row, template, slugs, expansion) ==
    IF row.sign_template = None \/ ~TemplateHasSvg(row.sign_template)
    THEN [empty |-> TRUE, expanded |-> FALSE, substituted |-> FALSE]
    ELSE LET use_expander == UseExpander(template, slugs)
             replaced == use_expander /\ expansion.length > ExpandThreshold
         IN [empty |-> FALSE, expanded |-> use_expander,
             substituted |-> IF replaced THEN expansion.braces ELSE template.braces]

\* A page asks for the SVG of sign id, whose template has the given code.
SvgCode(id, template, slugs, expansion) ==
    /\ Exists(id)
    /\ last' = [op |-> "svg", id |-> id, was |-> NoSign, template |-> template,
                slugs |-> slugs, result |-> SvgCodeOf(signs[id], template, slugs, expansion)]
    /\ UNCHANGED <<signs, positions, next_id, sign_perms, position_perms, cache, jobs,
                   inst, overlapped, started>>

\* ------------------------------------------------------ auto numbering
DigitChars == <<"0", "1", "2", "3", "4", "5", "6", "7", "8", "9">>

IsDigit(c) == \E d \in 1..10 : DigitChars[d] = c

DigitValue(c) == (CHOOSE d \in 1..10 : DigitChars[d] = c) - 1

RECURSIVE DigitsValue(_)
DigitsValue(str) ==
    IF str = <<>> THEN 0
    ELSE 10 * DigitsValue(SubSeq(str, 1, Len(str) - 1)) + DigitValue(str[Len(str)])

\* The digits of an integer literal, after its sign if it has one.
Unsigned(str) == IF str # <<>> /\ str[1] \in {"+", "-"} THEN Tail(str) ELSE str

\* int(str) does not raise ValueError: an optional sign and one or more
\* digits (the numbers here have no white space around them).
IntLiteral(str) ==
    Unsigned(str) # <<>> /\ \A i \in 1..Len(Unsigned(str)) : IsDigit(Unsigned(str)[i])

\* int(str) of an integer literal
ParseInt(str) ==
    IF str[1] = "-" THEN 0 - DigitsValue(Unsigned(str)) ELSE DigitsValue(Unsigned(str))

IntOrZero_Digits(str) ==
    DigitsValue(SelectSeq(str, IsDigit))

\* `try: v = int(s.number)` / `except ValueError: v = 0`
IntOrZero(str) == IF IntLiteral(str) THEN ParseInt(str) ELSE 0

\* str(n) of a natural number
RECURSIVE ToStr(_)
ToStr(n) ==
    IF n < 10 THEN <<DigitChars[n + 1]>> ELSE ToStr(n \div 10) \o <<DigitChars[(n % 10) + 1]>>

\* project.auto_numbering: off, or numbering per zone, per zone and type, or
\* per type.
AutoRules == {"0", "1", "2", "3"}

\* The cache key of the largest number of a numbering scope.
AutoKey(rule, z, t) ==
    CASE rule = "1" -> <<"zone:max_sign_number", <<z>>>>
      [] rule = "2" -> <<"zone,type:max_sign_number", <<z, t>>>>
      [] rule = "3" -> <<"type:max_sign_number", <<t>>>>

\* cd_zone.signs.all(), cd_zone.signs.filter(sign_template=cd_type),
\* cd_type.signs.all()
AutoScope(tbl, rule, z, t) ==
    {i \in DOMAIN tbl :
        /\ tbl[i] # NoSign
        /\ rule \in {"1", "2"} => tbl[i].zone = z
        /\ rule \in {"2", "3"} => tbl[i].sign_template = t}

\* The orders in which a query without ordering may return the rows ids.
Orders(ids) ==
    {order \in [1..Cardinality(ids) -> ids] :
        \A a, b \in 1..Cardinality(ids) : a # b => order[a] # order[b]}

\* The loop over the signs of the scope.
RECURSIVE LargestLoop(_, _, _, _)
LargestLoop(tbl, order, largest, char_length) ==
    IF order = <<>> THEN [largest |-> largest, char_length |-> char_length]
    ELSE LET number == tbl[Head(order)].number
             v == IntOrZero(number)
         IN IF v > largest
            THEN LargestLoop(tbl, Tail(order), v, Len(number))
            ELSE LargestLoop(tbl, Tail(order), largest, char_length)

\* Sign.auto_set_number(zone=z, sign_template=t) on a new sign with a blank
\* number: the number it sets, the cache, and whether the largest number was
\* computed from the signs (computed) rather than read from the cache.
AutoSetNumberOf(c, tbl, rule, z, t, order) ==
    IF rule = "0"
    THEN [cache |-> c, number |-> Empty, computed |-> FALSE]
    ELSE LET key == AutoKey(rule, z, t)
             miss == key \notin DOMAIN c \/ c[key] = <<>>
             l == LargestLoop(tbl, order, 0, 0)
             largest == IF miss THEN Zfill(ToStr(l.largest), l.char_length) ELSE c[key]
         IN [cache |-> IF miss THEN CacheSet(c, key, largest) ELSE c,
             number |-> Zfill(ToStr(ParseInt(largest) + 1), Len(largest)),
             computed |-> miss]

\* A form builds a new sign for zone z and template t and asks for its number.
AutoSetNumber(rule, z, t, order) ==
    /\ order \in Orders(AutoScope(signs, rule, z, t))
    /\ LET r == AutoSetNumberOf(cache, signs, rule, z, t, order)
       IN /\ cache' = r.cache
          /\ last' = [op |-> "auto", id |-> None, was |-> NoSign, rule |-> rule,
                      zone |-> z, sign_template |-> t, computed |-> r.computed,
                      number |-> r.number]
    /\ UNCHANGED <<signs, positions, next_id, sign_perms, position_perms, jobs, inst,
                   overlapped, started>>

\* ------------------------------------------------- artwork job handler
\* The loop of generate_artwork over the listed signs that exist, in order:
\* a sign whose template has SVG code gets sign.svg_as_png(); resp gives the
\* answer of the conversion service per sign.  A sign without a template
\* ends the loop (sign.sign_template.svg_code raises).
RECURSIVE GenerateArtwork(_, _, _, _, _)
GenerateArtwork(c, tbl, ids, resp, posted) ==
    IF ids = <<>> THEN [cache |-> c, posted |-> posted]
    ELSE LET id == Head(ids)
         IN IF id \notin DOMAIN tbl \/ tbl[id] = NoSign
            THEN GenerateArtwork(c, tbl, Tail(ids), resp, posted)
            ELSE IF tbl[id].sign_template = None
            THEN [cache |-> c, posted |-> posted]
            ELSE IF TemplateHasSvg(tbl[id].sign_template)
            THEN LET r == SvgAsPng(c, id, TRUE, resp[id])
                 IN GenerateArtwork(r.cache, tbl, Tail(ids), resp,
                                    IF r.posted THEN posted \cup {id} ELSE posted)
            ELSE GenerateArtwork(c, tbl, Tail(ids), resp, posted)

\* The job queue delivers a job to the handler, any time after its delay.
RunJob(job, resp) ==
    /\ job \in jobs
    /\ LET r == GenerateArtwork(cache, signs, job.sign_ids, resp, {})
       IN /\ cache' = r.cache
          /\ last' = [op |-> "job", id |-> Head(job.sign_ids), was |-> NoSign,
                      cached |-> CachedLabels(Head(job.sign_ids)), posted |-> r.posted]
    /\ jobs' = jobs \ {job}
    /\ UNCHANGED <<signs, positions, next_id, sign_perms, position_perms, inst,
                   overlapped, started>>

\* ------------------------------------ requests, one step per action
Saving(q) == inst[q].pc \notin {"none", "idle", "done", "raised"}

\* New signs that requests in flight have yet to insert.
Unsaved == Cardinality({q \in Procs : inst[q] # NoInst /\ inst[q].id = None})

BeginCreate(q, p, t, n, s, f, cap) ==
    /\ inst[q] = NoInst
    /\ next_id + Unsaved <= cap
    /\ inst' = [inst EXCEPT ![q] = [Edit(NewSign(p, t, n, s), p, t, n, s, f) EXCEPT !.pc = "start"]]
    /\ overlapped' = (overlapped \/ \E o \in Procs \ {q} : inst[o] # NoInst)
    /\ UNCHANGED <<signs, positions, next_id, sign_perms, position_perms, cache, jobs, last>>

BeginUpdate(q, id, p, t, n, s, f) ==
    /\ inst[q] = NoInst
    /\ Exists(id)
    /\ inst' = [inst EXCEPT ![q] = [Edit(SignInit(signs[id]), p, t, n, s, f) EXCEPT !.pc = "start"]]
    /\ overlapped' = (overlapped \/ \E o \in Procs \ {q} : inst[o] # NoInst)
    /\ UNCHANGED <<signs, positions, next_id, sign_perms, position_perms, cache, jobs, last>>

Step(q) ==
    /\ inst[q] # NoInst
    /\ Saving(q)
    /\ LET r == SaveStep(Db, inst[q])
       IN /\ Store(r.db)
          /\ inst' = [inst EXCEPT ![q] = r.me]
    /\ UNCHANGED <<last, overlapped>>

\* save() has returned and the request ends.
Finish(q) ==
    /\ inst[q] # NoInst
    /\ inst[q].pc = "done"
    /\ inst' = [inst EXCEPT ![q] = NoInst]
    /\ last' = [op |-> IF inst[q].is_new THEN "create" ELSE "update",
                id |-> inst[q].id, was |-> NoSign]
    /\ UNCHANGED <<signs, positions, next_id, sign_perms, position_perms, cache, jobs, overlapped>>

\* ------------------------------------------------------ specifications
\* Requests that create, renumber, retype and relocate signs: any position,
\* template and number; the workflow state stays 1.
NextRequest ==
    \E p \in Positions, t \in Templates, n \in Numbers :
        \/ Create(p, t, n, 1, None, MaxPairSigns)
        \/ \E id \in SignIds : Update(id, p, t, n, 1, None)

SpecRequest == Init /\ [][NextRequest]_vars

\* Requests on up to MaxSigns signs at position 1: create, renumber, retype.
NextTriple ==
    \E t \in Templates, n \in Numbers :
        \/ Create(1, t, n, 1, None, MaxSigns)
        \/ \E id \in SignIds : Update(id, 1, t, n, 1, None)

SpecTriple == Init /\ [][NextTriple]_vars

\* Instances that are saved again after their first save, at position 1,
\* with template 1 or none.
NextSession ==
    \E p \in {1}, t \in {None, 1}, n \in Numbers :
        \/ SessionCreate(p, t, n, 1, None, MaxSessionSigns)
        \/ \E id \in SignIds : SessionUpdate(id, p, t, n, 1, None)
        \/ SessionResave(p, t, n, 1, None)

Spec == Init /\ [][NextSession]_vars

\* Requests that create signs at position 1 and move them between the
\* workflow states.
NextPermRequest ==
    \E s \in States :
        \/ Create(1, 1, <<"1">>, s, None, MaxSigns)
        \/ \E id \in SignIds : Update(id, 1, 1, <<"1">>, s, None)

SpecPermRequest == Init /\ [][NextPermRequest]_vars

\* Instances at position 1 that are saved more than once and moved between
\* the workflow states.
NextPermSession ==
    \E p \in {1}, s \in States :
        \/ SessionCreate(p, 1, <<"1">>, s, None, MaxPermSigns)
        \/ \E id \in SignIds : SessionUpdate(id, p, 1, <<"1">>, s, None)
        \/ SessionResave(p, 1, <<"1">>, s, None)

SpecPermSession == Init /\ [][NextPermSession]_vars

\* Signs are created and moved between states at position 1, and state
\* actions resynchronise the permissions of a sign against any old state.
NextResync ==
    \/ \E s \in States :
          \/ Create(1, 1, <<"1">>, s, None, MaxPermSigns)
          \/ \E id \in SignIds : Update(id, 1, 1, <<"1">>, s, None)
    \/ \E id \in SignIds, old_state \in States \cup {None} : Resync(id, old_state)

SpecResync == Init /\ [][NextResync]_vars

\* Two requests whose saves interleave step by step: signs at position 1
\* with template 1, created and renumbered.
NextConc ==
    \E q \in Procs :
        \/ /\ started < MaxRequests
           /\ started' = started + 1
           /\ \/ \E n \in Numbers : BeginCreate(q, 1, 1, n, 1, None, MaxConcSigns)
              \/ \E id \in SignIds, n \in Numbers : BeginUpdate(q, id, 1, 1, n, 1, None)
        \/ Step(q) /\ UNCHANGED started
        \/ Finish(q) /\ UNCHANGED started

SpecConc == Init /\ [][NextConc]_vars

\* One request at a time, step by step, with every input of save().
NextSteps ==
    \/ \E p \in {1}, t \in {1}, n \in {<<"1">>}, s \in {1, 3}, f \in {None, 1} :
          /\ UNCHANGED started
          /\ \/ BeginCreate(1, p, t, n, s, f, MaxConcSigns)
             \/ \E id \in SignIds : BeginUpdate(1, id, p, t, n, s, f)
    \/ Step(1) /\ UNCHANGED started
    \/ Finish(1) /\ UNCHANGED started

SpecSteps == Init /\ [][NextSteps]_vars

\* Forms that create signs and edit their quantity, and pages that render
\* them, at position 1 with template 1.
FormFields ==
    [position : {1}, sign_template : {1}, number : {<<"1">>}, state : {1},
     override_pdf : {None}, quantity : Quantities, review_state : {"N"}]

NextForm ==
    \/ \E e \in FormFields :
          \/ FormCreate(e, MaxFormSigns, FALSE)
          \/ \E id \in SignIds : FormUpdate(id, e, FALSE)
    \/ \E id \in SignIds :
          \/ \E response \in Responses : RenderPng(id, TRUE, response)
          \/ \E label \in CacheLabels : RenderText(id, label)

SpecForm == Init /\ [][NextForm]_vars

\* Review forms: signs at position 1 moved between states 1 and 2 with a
\* review_state chosen by the caller; an instance may be saved again.
ReviewFields ==
    [position : {1}, sign_template : {1}, number : {<<"1">>}, state : {1, 2},
     override_pdf : {None}, quantity : {1}, review_state : ReviewStates \ {"R"}]

NextReview ==
    \E e \in ReviewFields :
        \/ FormCreate(e, MaxSessionSigns, TRUE)
        \/ \E id \in SignIds : FormUpdate(id, e, TRUE)
        \/ FormResave(e)

SpecReview == Init /\ [][NextReview]_vars

\* Forms that renumber signs at position 1, also to the empty number; an
\* instance may be saved again.
RenumberFields ==
    [position : {1}, sign_template : {1}, number : Numbers \cup {Empty}, state : {1},
     override_pdf : {None}, quantity : {1}, review_state : {"N"}]

NextRenumber ==
    \E e \in RenumberFields :
        \/ FormCreate(e, MaxSessionSigns, TRUE)
        \/ \E id \in SignIds : FormUpdate(id, e, TRUE)
        \/ FormResave(e)

SpecRenumber == Init /\ [][NextRenumber]_vars

\* Numbers with up to MaxSegments dot-separated segments of up to MaxSegLen
\* digits each.
SortDigits == {"1", "2"}

DigitStrings == UNION {[1..k -> SortDigits] : k \in 1..MaxSegLen}

RECURSIVE Dotted(_)
Dotted(k) ==
    IF k = 1 THEN DigitStrings
    ELSE {a \o <<".">> \o b : a \in Dotted(k - 1), b \in DigitStrings}

SortNumbers == UNION {Dotted(k) : k \in 1..MaxSegments}

SortFields1 ==
    [position : {1}, sign_template : {1}, number : SortNumbers, state : {1},
     override_pdf : {None}, quantity : {1}, review_state : {"N"}]

\* Signs created with the numbers of SortNumbers; save() computes their keys.
NextSort == \E e \in SortFields1 : FormCreate(e, MaxSortSigns, FALSE)

SpecSort == Init /\ [][NextSort]_vars

\* Signs created and renumbered with the numbers "7", "1.11", "1.11.1" and
\* the empty number.
ExampleNumbers ==
    {<<"7">>, <<"1", ".", "1", "1">>, <<"1", ".", "1", "1", ".", "1">>, Empty}

ExampleFields ==
    [position : {1}, sign_template : {1}, number : ExampleNumbers, state : {1},
     override_pdf : {None}, quantity : {1}, review_state : {"N"}]

NextExample ==
    \E e \in ExampleFields :
        \/ FormCreate(e, MaxSigns, FALSE)
        \/ \E id \in SignIds : FormUpdate(id, e, FALSE)

SpecExample == Init /\ [][NextExample]_vars

\* ------------------------------------------------------------------------
\* Positions that change zone

\* position.zone = z; position.save(): the position row takes the zone and
\* the zone's project.  The signs at the position are not saved: their rows
\* keep the zone they were last saved with.
MovePosition(p, z) ==
    /\ p \in DOMAIN positions
    /\ positions[p].zone # z
    /\ positions' = [positions EXCEPT ![p] = PositionRow(z)]
    /\ last' = [op |-> "move", id |-> None, was |-> NoSign]
    /\ UNCHANGED <<signs, next_id, sign_perms, position_perms, cache, jobs, inst,
                   overlapped, started>>

NestNumbers == {<<"1">>, <<"2">>}

NestFields ==
    [position : {1}, sign_template : {1}, number : NestNumbers, state : {1},
     override_pdf : {None}, quantity : {1}, review_state : {"N"}]

\* Signs created and edited through the form at position 1, whose zone changes
\* between the zones of one project.
NextNest ==
    \/ \E e \in NestFields :
          \/ FormCreate(e, MaxNestSigns, FALSE)
          \/ \E id \in SignIds : FormUpdate(id, e, FALSE)
    \/ \E z \in Positions : MovePosition(1, z)

SpecNest == Init /\ [][NextNest]_vars

\* Signs are created in zone 1 with numbers that are integers, padded
\* integers, zero, negative or not integers at all, and forms ask for the
\* next number under every numbering rule.
AutoNumbers ==
    {<<"9">>, <<"0", "9">>, <<"0", "0">>, <<"-", "5">>, <<"1", ".", "5">>, Empty}

AutoFields ==
    [position : {1}, sign_template : Templates, number : AutoNumbers, state : {1},
     override_pdf : {None}, quantity : {1}, review_state : {"N"}]

NextAuto ==
    \/ \E e \in AutoFields : FormCreate(e, MaxAutoSigns, FALSE)
    \/ \E rule \in AutoRules : \E order \in Orders(AutoScope(signs, rule, 1, 1)) :
          AutoSetNumber(rule, 1, 1, order)

SpecAuto == Init /\ [][NextAuto]_vars

\* Signs created at the positions that exist, and deleted.
DeleteFields ==
    [position : Positions, sign_template : {1}, number : {<<"1">>}, state : {1},
     override_pdf : {None}, quantity : {1}, review_state : {"N"}]

NextDelete ==
    \/ \E e \in DeleteFields : FormCreate(e, MaxSigns, FALSE)
    \/ \E id \in SignIds : DeleteSign(id)

SpecDelete == Init /\ [][NextDelete]_vars

\* Signs with a template with or without SVG code are saved, pages render
\* their PNG, and the job queue runs the artwork jobs of the saves.
ArtworkFields ==
    [position : {1}, sign_template : Templates, number : {<<"1">>}, state : {1},
     override_pdf : {None}, quantity : Quantities, review_state : {"N"}]

NextArtwork ==
    \/ \E e \in ArtworkFields :
          \/ FormCreate(e, MaxFormSigns, FALSE)
          \/ \E id \in SignIds : FormUpdate(id, e, FALSE)
    \/ \E id \in SignIds, generate \in BOOLEAN, response \in Responses :
          RenderPng(id, generate, response)
    \/ \E job \in jobs, resp \in [SignIds -> Responses] : RunJob(job, resp)

SpecArtwork == Init /\ [][NextArtwork]_vars

\* Signs are saved, and pages ask for their PNG with and without generation;
\* the conversion service answers with bodies around the caching threshold.
NextPng ==
    \/ \E e \in FormFields :
          \/ FormCreate(e, MaxFormSigns, FALSE)
          \/ \E id \in SignIds : FormUpdate(id, e, FALSE)
    \/ \E id \in SignIds, generate \in BOOLEAN, response \in Responses :
          RenderPng(id, generate, response)

SpecPng == Init /\ [][NextPng]_vars

\* Signs with a template with or without SVG code are created, and pages
\* ask for their SVG.
SvgFields ==
    [position : {1}, sign_template : Templates, number : {<<"1">>}, state : {1},
     override_pdf : {None}, quantity : {1}, review_state : {"N"}]

NextSvg ==
    \/ \E e \in SvgFields : FormCreate(e, MaxSvgSigns, FALSE)
    \/ \E id \in SignIds, template \in SvgTemplates, slugs \in SlugSets,
          expansion \in Expansions : SvgCode(id, template, slugs, expansion)

SpecSvg == Init /\ [][NextSvg]_vars

\* One request at a time saves a sign step by step while pages ask for the
\* PNG of the stored signs.
NextJob ==
    \/ /\ UNCHANGED started
       /\ \/ BeginCreate(1, 1, 1, <<"1">>, 1, None, MaxConcSigns)
          \/ \E id \in SignIds : BeginUpdate(1, id, 1, 1, <<"1">>, 1, None)
    \/ Step(1) /\ UNCHANGED started
    \/ Finish(1) /\ UNCHANGED started
    \/ \E id \in SignIds, response \in Responses : RenderPng(id, TRUE, response)

SpecJob == Init /\ [][NextJob]_vars

\* ------------------------------------------------------------ claims
\* The scope fields of scope k are set on row r.
ScopeFieldsSet(r, k) ==
    /\ r.number \in Numbers
    /\ (k \in {1, 3} => r.sign_template # None)
    /\ (k \in {1, 2} => r.zone # None)

\* Rows a and b are in one project and share the tuple of scope k.
SameTuple(a, b, k) ==
    /\ a.project = b.project
    /\ a.number = b.number
    /\ (k \in {1, 3} => a.sign_template = b.sign_template)
    /\ (k \in {1, 2} => a.zone = b.zone)

\* The stored signs other than i that share i's tuple of scope k.
Sharing(tbl, i, k) ==
    {j \in DOMAIN tbl : j # i /\ tbl[j] # NoSign /\ SameTuple(tbl[i], tbl[j], k)}

\* C1: after any sequence of sequential saves, every conflict flag whose
\* scope fields are set on the sign is true exactly when another sign of the
\* project shares the tuple of that scope.
C1_FlagsConsistent ==
    \A i \in SignIds : \A k \in Scopes :
        (Exists(i) /\ ScopeFieldsSet(signs[i], k))
            => (GetFlag(signs[i], k) <=> Sharing(signs, i, k) # {})

\* The sign saved by the last request and its stored row before that save.
Saved == signs[last.id]

Was == last.was

Updated == last.op = "update" /\ Was # NoSign

\* C2: when three signs are saved one after another with the same project,
\* template, zone and number, all three have has_conflict_type_location_number
\* set after the third save: once a request has saved a sign whose tuple two
\* other stored signs share, the saved sign and every sharer are flagged.
C2_ThreeAllFlagged ==
    (last.op \in {"create", "update"}
        /\ ScopeFieldsSet(Saved, 1)
        /\ Cardinality(Sharing(signs, last.id, 1)) >= 2)
    => \A j \in Sharing(signs, last.id, 1) \cup {last.id} :
           signs[j].has_conflict_type_location_number

C2_Witness ==
    /\ last.op = "create"
    /\ last.id = 3
    /\ Sharing(signs, 3, 1) = {1, 2}
    /\ \A j \in {1, 2, 3} : signs[j].has_conflict_type_location_number

\* The case of C3: the last request loaded sign c, which shared its
\* (project, template, zone, number) with signs a and b and was flagged,
\* and renumbered it to a number no other sign of the project has.
RenumberedAway(a, b, c) ==
    /\ Updated /\ last.id = c
    /\ a # b /\ a # c /\ b # c
    /\ Exists(a) /\ Exists(b)
    /\ ScopeFieldsSet(Was, 1)
    /\ Was.has_conflict_type_location_number
    /\ SameTuple(Was, signs[a], 1) /\ SameTuple(Was, signs[b], 1)
    /\ Saved.number # Was.number
    /\ Saved.sign_template = Was.sign_template /\ Saved.zone = Was.zone
    /\ \A j \in SignIds \ {c} :
           Exists(j) /\ signs[j].project = Saved.project => signs[j].number # Saved.number

\* C3 as stated: renumbering C away from the tuple it shares with A and B
\* clears the flag of C and also the flags of A and B.
C3_Original ==
    \A a, b, c \in SignIds :
        RenumberedAway(a, b, c)
        => /\ ~Saved.has_conflict_type_location_number
           /\ ~signs[a].has_conflict_type_location_number
           /\ ~signs[b].has_conflict_type_location_number

\* C3 amended: renumbering C away clears the flag of C; A and B, which still
\* share the tuple with each other, keep their flags.
C3_OthersStayFlagged ==
    \A a, b, c \in SignIds :
        RenumberedAway(a, b, c)
        => /\ ~Saved.has_conflict_type_location_number
           /\ signs[a].has_conflict_type_location_number
           /\ signs[b].has_conflict_type_location_number

C3_Witness ==
    \E a, b, c \in SignIds :
        /\ RenumberedAway(a, b, c)
        /\ ~Saved.has_conflict_type_location_number
        /\ signs[a].has_conflict_type_location_number
        /\ signs[b].has_conflict_type_location_number

\* The case of C4: the last request saved sign y, and sign x shares zone and
\* number with it but not the template; no sign shares (template, number)
\* with either.
ZoneNumberClash(x, y) ==
    /\ last.op \in {"create", "update"} /\ last.id = y
    /\ x # y /\ Exists(x)
    /\ SameTuple(signs[x], signs[y], 2)
    /\ signs[x].sign_template # signs[y].sign_template
    /\ signs[x].sign_template # None /\ signs[y].sign_template # None
    /\ Sharing(signs, x, 3) = {} /\ Sharing(signs, y, 3) = {}

\* C4: the scopes are toggled independently: two signs of one project that
\* share zone and number but not the template both get
\* has_conflict_location_number, and neither gets
\* has_conflict_type_location_number or has_conflict_type_number.
C4_ScopesIndependent ==
    \A x, y \in SignIds :
        ZoneNumberClash(x, y)
        => \A i \in {x, y} :
              /\ signs[i].has_conflict_location_number
              /\ ~signs[i].has_conflict_type_location_number
              /\ ~signs[i].has_conflict_type_number

C4_Witness ==
    \E x, y \in SignIds :
        /\ ZoneNumberClash(x, y)
        /\ last.op = "create"
        /\ \A i \in {x, y} :
              /\ signs[i].has_conflict_location_number
              /\ ~signs[i].has_conflict_type_location_number
              /\ ~signs[i].has_conflict_type_number

\* The case of C5 for scope k: the last request loaded sign b, which shared
\* its scope tuple with sign a alone and was flagged, and saved it with a
\* number, template or zone that takes it to a tuple no other sign has.
MovedOutOfPair(a, b, k) ==
    /\ Updated /\ last.id = b
    /\ a # b /\ Exists(a)
    /\ ScopeFieldsSet(Was, k) /\ ScopeFieldsSet(Saved, k)
    /\ GetFlag(Was, k)
    /\ {j \in SignIds \ {b} : Exists(j) /\ SameTuple(Was, signs[j], k)} = {a}
    /\ ~SameTuple(Was, Saved, k)
    /\ Sharing(signs, b, k) = {}

\* C5: when exactly two signs A and B share a scope's tuple and are flagged,
\* saving B, loaded from storage, with a changed number, template or zone
\* that no other sign uses clears that scope's flag on B and on A.
C5_PairCleared ==
    \A a, b \in SignIds : \A k \in Scopes :
        MovedOutOfPair(a, b, k) => ~GetFlag(Saved, k) /\ ~GetFlag(signs[a], k)

C5_Witness ==
    \E a, b \in SignIds :
        /\ \A k \in Scopes : MovedOutOfPair(a, b, k)
        /\ \A k \in Scopes : ~GetFlag(Saved, k) /\ ~GetFlag(signs[a], k)
        /\ Saved.number = Was.number
        /\ Saved.zone # Was.zone
        /\ Saved.sign_template # Was.sign_template

\* No request is in flight.
AllReturned == \A q \in Procs : inst[q] = NoInst

\* Some sign shares a scope tuple with another sign and has that flag false.
MissingFlag ==
    \E i \in SignIds : \E k \in Scopes :
        /\ Exists(i) /\ ScopeFieldsSet(signs[i], k)
        /\ Sharing(signs, i, k) # {}
        /\ ~GetFlag(signs[i], k)

\* C6: two saves that run concurrently in overlapping scopes can interleave
\* so that, after both have finished, signs share a tuple and one of them has
\* the flag false (C6_Witness); a flag is missing after the saves have
\* finished only when requests did overlap.
C6_MissingOnlyAfterOverlap ==
    (AllReturned /\ MissingFlag) => overlapped

\* Two new signs with one template, zone and number, created by the only two
\* requests, which overlapped; both saves have returned and a flag is false.
C6_Witness ==
    /\ AllReturned
    /\ overlapped
    /\ started = 2
    /\ Exists(1) /\ Exists(2) /\ ~Exists(3)
    /\ \A k \in Scopes : SameTuple(signs[1], signs[2], k)
    /\ ~signs[1].has_conflict_type_location_number
    /\ ~signs[2].has_conflict_type_location_number

\* The groups that hold change_sign, view_sign or review_sign on sign i.
Holders(i) ==
    {e[1] : e \in {x \in sign_perms :
                      x[3] = i /\ x[2] \in {"change_sign", "view_sign", "review_sign"}}}

HoldsSign(g, perm, i) == <<g, perm, i>> \in sign_perms

HoldsPosition(g, perm, p) == <<g, perm, p>> \in position_perms

\* The case of C7: the last request loaded a sign in state s1 and saved it in
\* state s2 of the same phase.
MovedWithinPhase(s1, s2) ==
    /\ Updated
    /\ Was.state = s1 /\ Saved.state = s2
    /\ s1 # s2
    /\ StatePhase(s1) = StatePhase(s2)

\* C7: after a sign has moved from state S1 to state S2 of the same phase, the
\* phase member group holds change_sign and view_sign on it, the viewer group
\* of S2 holds view_sign and review_sign, and the viewer group of S1 holds
\* neither.
C7_SamePhaseMove ==
    \A s1, s2 \in States :
        MovedWithinPhase(s1, s2)
        => /\ HoldsSign(MemberGroup(StatePhase(s2)), "change_sign", last.id)
           /\ HoldsSign(MemberGroup(StatePhase(s2)), "view_sign", last.id)
           /\ HoldsSign(StateViewerGroup(s2), "view_sign", last.id)
           /\ HoldsSign(StateViewerGroup(s2), "review_sign", last.id)
           /\ ~HoldsSign(StateViewerGroup(s1), "view_sign", last.id)
           /\ ~HoldsSign(StateViewerGroup(s1), "review_sign", last.id)

C7_Witness ==
    /\ MovedWithinPhase(1, 2)
    /\ HoldsSign(MemberGroup(1), "change_sign", last.id)
    /\ HoldsSign(StateViewerGroup(2), "review_sign", last.id)
    /\ ~HoldsSign(StateViewerGroup(1), "view_sign", last.id)

\* The case of C8: the last request loaded sign x, which was in state s1 at a
\* position where sign y is in s1 too, and saved it in a state of another
\* phase.
MovedOutOfSharedState(x, y, s1) ==
    /\ Updated /\ last.id = x
    /\ y # x /\ Exists(y)
    /\ Was.state = s1 /\ signs[y].state = s1
    /\ Was.position = signs[y].position /\ Saved.position = Was.position
    /\ Saved.state \in States
    /\ StatePhase(Saved.state) # StatePhase(s1)

\* C8: when one of two signs of a position leaves their common state for a
\* state of another phase, the position keeps change_position and
\* view_position for the member group and view_position for the viewer
\* groups of the state and phase the other sign is still in.
C8_PositionGrantsKept ==
    \A x, y \in SignIds : \A s1 \in States :
        MovedOutOfSharedState(x, y, s1)
        => LET p == signs[y].position
           IN /\ HoldsPosition(MemberGroup(StatePhase(s1)), "change_position", p)
              /\ HoldsPosition(MemberGroup(StatePhase(s1)), "view_position", p)
              /\ HoldsPosition(ViewerGroup(StatePhase(s1)), "view_position", p)
              /\ HoldsPosition(StateViewerGroup(s1), "view_position", p)

C8_Witness ==
    \E x, y \in SignIds :
        /\ MovedOutOfSharedState(x, y, 1)
        /\ Saved.state = 3
        /\ ~Exists(3)
        /\ HoldsPosition(MemberGroup(1), "change_position", signs[y].position)
        /\ HoldsPosition(StateViewerGroup(1), "view_position", signs[y].position)
        /\ HoldsPosition(StateViewerGroup(3), "view_position", signs[y].position)

\* C9: after any sequence of state transitions saved on a sign, also several
\* on one in-memory instance, the only groups holding change_sign, view_sign
\* or review_sign on it are the member and viewer groups of its current phase
\* and the viewer group of its current state.
C9_OnlyCurrentGroups ==
    \A i \in SignIds :
        (Exists(i) /\ signs[i].state \in States)
        => Holders(i) \subseteq {MemberGroup(signs[i].phase), ViewerGroup(signs[i].phase),
                                 StateViewerGroup(signs[i].state)}

\* The steps a save has performed so far are in the order `rank` gives.
InOrder(log, rank) ==
    \A i, j \in DOMAIN log : i < j => rank[log[i]] < rank[log[j]]

\* The order of C10 as stated; the row write, which it does not name, is
\* placed where the code has it.
StatedRank ==
    [x \in {"shortcut", "artwork", "rescan", "write", "perms", "cache", "job"} |->
        CASE x = "shortcut" -> 1 [] x = "artwork" -> 2 [] x = "rescan" -> 3
          [] x = "write" -> 4 [] x = "perms" -> 5 [] x = "cache" -> 6 [] x = "job" -> 7]

\* The order with the permission resync last.
ResyncLastRank ==
    [x \in {"shortcut", "artwork", "rescan", "write", "perms", "cache", "job"} |->
        CASE x = "shortcut" -> 1 [] x = "artwork" -> 2 [] x = "rescan" -> 3
          [] x = "write" -> 4 [] x = "cache" -> 5 [] x = "job" -> 6 [] x = "perms" -> 7]

C11_SaveDeletesKeys ==
    last.op \in {"create", "update"} => CachedLabels(last.id) = {}

\* Only the quantity of a sign whose three entries were cached has changed.
C11_Witness ==
    /\ last.op = "update"
    /\ last.cached = CacheLabels
    /\ Saved.quantity # Was.quantity
    /\ [Saved EXCEPT !.quantity = Was.quantity] = Was
    /\ CachedLabels(last.id) = {}

\* C12: whenever a save changes a sign's state to a different non-null
\* state, the sign's review_state is "N" after the save, whatever
\* review_state the caller had set.
C12_StateChangeResetsReview ==
    (/\ last.op \in {"update", "resave"}
     /\ Saved.state # None
     /\ Was.state # Saved.state)
    => Saved.review_state = "N"

\* C13: after every save of a sign, number_sort is the sort-key encoding of
\* the sign's current number, and the empty string when the number is
\* empty, for any sequence of number changes and saves, also on one
\* in-memory instance.
C13_NumberSortCurrent ==
    \A i \in SignIds :
        Exists(i) =>
            signs[i].number_sort =
                IF signs[i].number = Empty THEN Empty ELSE Encode(signs[i].number)

\* Character codes of the characters of a number.
Code(c) ==
    CASE c = "." -> 46 [] c = "0" -> 48 [] c = "1" -> 49 [] c = "2" -> 50
      [] c = "3" -> 51 [] c = "4" -> 52 [] c = "5" -> 53 [] c = "6" -> 54
      [] c = "7" -> 55 [] c = "8" -> 56 [] c = "9" -> 57

\* x < y in lexicographic order of the character codes.
LexLess(x, y) ==
    \E k \in 1..(Len(y)) :
        /\ \A j \in 1..(k - 1) : j <= Len(x) /\ x[j] = y[j]
        /\ \/ Len(x) = k - 1
           \/ k <= Len(x) /\ Code(x[k]) < Code(y[k])

\* The dot-separated segments of a number.
RECURSIVE Segments(_)
Segments(str) ==
    IF FirstDot(str) = 0 THEN <<str>>
    ELSE <<SubSeq(str, 1, FirstDot(str) - 1)>>
             \o Segments(SubSeq(str, FirstDot(str) + 1, Len(str)))

\* The number a digit string denotes.
RECURSIVE Value(_)
Value(seg) ==
    IF seg = <<>> THEN 0
    ELSE 10 * Value(SubSeq(seg, 1, Len(seg) - 1)) + (Code(seg[Len(seg)]) - 48)

\* a < b in natural order: segment by segment as numbers, a number sorting
\* before its own extensions.
NatLess(a, b) ==
    LET sa == Segments(a)
        sb == Segments(b)
    IN \E k \in 1..Len(sb) :
          /\ \A j \in 1..(k - 1) : j <= Len(sa) /\ Value(sa[j]) = Value(sb[j])
          /\ \/ Len(sa) = k - 1
             \/ k <= Len(sa) /\ Value(sa[k]) < Value(sb[k])

\* The corresponding segments of a and b have equal length.
EqualLengthParts(a, b) ==
    LET sa == Segments(a)
        sb == Segments(b)
    IN \A k \in 1..Len(sa) : k <= Len(sb) => Len(sa[k]) = Len(sb[k])

\* C14: the sort key is monotonic: for two signs whose numbers have
\* corresponding numeric parts of equal length, the one number is before the
\* other in natural order exactly when its number_sort is before the other's
\* in lexicographic character-code order.
C14_EncodeMonotonic ==
    \A i, j \in SignIds :
        (Exists(i) /\ Exists(j) /\ EqualLengthParts(signs[i].number, signs[j].number))
        => (NatLess(signs[i].number, signs[j].number)
              <=> LexLess(signs[i].number_sort, signs[j].number_sort))

\* C15: a number that extends another by one more dot-segment does not sort
\* before it: the number_sort of a sign numbered "1.11.2" is not
\* lexicographically less than that of a sign numbered "1.11".
C15_ExtensionNotBefore ==
    \A i, j \in SignIds :
        (/\ Exists(i) /\ Exists(j)
         /\ signs[i].number = <<"1", ".", "1", "1", ".", "2">>
         /\ signs[j].number = <<"1", ".", "1", "1">>)
        => ~LexLess(signs[i].number_sort, signs[j].number_sort)

\* The step deletes stored sign id.
Deletes(id) ==
    /\ Exists(id)
    /\ signs'[id] = NoSign
    /\ last'.op = "delete" /\ last'.id = id

\* C16: after a sign is deleted, its position is deleted if and only if no
\* other sign referenced that position; a position that still has another
\* sign is kept, and so are its signs.
C16_OrphanCleanup ==
    [][\A id \in SignIds :
          Deletes(id) =>
              LET p == signs[id].position
                  others == OtherSignsAt(signs, p, id)
              IN /\ (p \notin DOMAIN positions') <=> (others = {})
                 /\ \A j \in others : signs'[j] = signs[j]]_vars

\* The last sign of a position was deleted and the position went with it,
\* while the other position keeps its sign.
C16_Witness ==
    /\ last.op = "delete"
    /\ last.was.position \notin DOMAIN positions
    /\ \E j \in SignIds : Exists(j) /\ signs[j].position \in DOMAIN positions

\* C17: the sign:generate_artwork handler makes a request to the conversion
\* service for every listed sign whose template has SVG code, also when a
\* cached PNG of the sign exists, and none for a sign whose template has no
\* SVG code.
C17_JobRegenerates ==
    last.op = "job" =>
        \A id \in SignIds :
            Exists(id) /\ id = last.id =>
                (id \in last.posted <=> TemplateHasSvg(signs[id].sign_template))

\* The three conflict flags of a row.
Flags(r) == <<r.has_conflict_type_location_number, r.has_conflict_location_number,
              r.has_conflict_type_number>>

\* Request q is saving a sign it loaded from storage, with the number, the
\* template and the zone that the stored row has.
SavingUnchangedTuple(q) ==
    /\ inst[q] # NoInst
    /\ Saving(q)
    /\ ~inst[q].is_new
    /\ Exists(inst[q].id)
    /\ inst[q].number = signs[inst[q].id].number
    /\ inst[q].sign_template = signs[inst[q].id].sign_template
    /\ PositionZone(Db, inst[q].position) = signs[inst[q].id].zone

\* C18: saving an existing sign loaded from storage whose number, template
\* and zone are unchanged performs no conflict rescan: no step of the save
\* changes a conflict flag of the saved sign or of any other sign.
C18_NoRescanWhenUnchanged ==
    [][SavingUnchangedTuple(1) =>
          \A i \in SignIds : Exists(i) => Flags(signs'[i]) = Flags(signs[i])]_vars

\* A loaded sign that is in conflict with another has been saved with a new
\* state and the same number, template and zone; no rescan has run.
C18_Witness ==
    /\ inst[1] # NoInst
    /\ inst[1].pc = "done"
    /\ ~inst[1].is_new
    /\ inst[1].original_state_id # inst[1].state
    /\ inst[1].log = <<"shortcut", "write", "cache", "job", "perms">>
    /\ signs[inst[1].id].state = inst[1].state
    /\ signs[inst[1].id].has_conflict_type_location_number
    /\ Sharing(signs, inst[1].id, 1) # {}

\* The last request ran the permission resync: it created a sign with a
\* state, or loaded a sign and saved it in another state.
Resynced ==
    /\ last.op \in {"create", "update"}
    /\ Saved.state \in States
    /\ last.op = "update" => Was.state # Saved.state

\* C19: after a state-change resync the sign carries change_sign and
\* view_sign for the member group of the new phase, view_sign for the viewer
\* group of the new phase and view_sign plus review_sign for the viewer group
\* of the new state, and its position carries change_position and
\* view_position for the new member group and view_position for both new
\* viewer groups, whatever other signs are at the position.
C19_NewGrants ==
    Resynced =>
        LET member == MemberGroup(StatePhase(Saved.state))
            viewer == ViewerGroup(StatePhase(Saved.state))
            state_viewer == StateViewerGroup(Saved.state)
            p == Saved.position
        IN /\ HoldsSign(member, "change_sign", last.id)
           /\ HoldsSign(member, "view_sign", last.id)
           /\ HoldsSign(viewer, "view_sign", last.id)
           /\ HoldsSign(state_viewer, "view_sign", last.id)
           /\ HoldsSign(state_viewer, "review_sign", last.id)
           /\ HoldsPosition(member, "change_position", p)
           /\ HoldsPosition(member, "view_position", p)
           /\ HoldsPosition(viewer, "view_position", p)
           /\ HoldsPosition(state_viewer, "view_position", p)

\* A sign moved to state 3 while two other signs of its position stay in
\* states 1 and 2; sign and position carry the grants of state 3.
C19_Witness ==
    /\ Resynced
    /\ last.op = "update"
    /\ Saved.state = 3
    /\ {signs[j].state : j \in OtherSignsAt(signs, Saved.position, last.id)} = {1, 2}
    /\ HoldsSign(StateViewerGroup(3), "review_sign", last.id)
    /\ HoldsPosition(MemberGroup(2), "change_position", Saved.position)
    /\ HoldsPosition(StateViewerGroup(3), "view_position", Saved.position)

\* The last request loaded a sign and saved it, at the same position, in a
\* state of another phase.
MovedAcrossPhase ==
    /\ Updated
    /\ Was.state \in States /\ Saved.state \in States
    /\ StatePhase(Was.state) # StatePhase(Saved.state)
    /\ Saved.position = Was.position

\* C20: when a sign moves from a state of one phase to a state of another
\* phase, a position grant of an old group is gone after the resync exactly
\* when no other sign of the position holds the corresponding sign grant
\* from that group; for the only sign of a position all four old position
\* grants are gone.
C20_OldPositionGrants ==
    MovedAcrossPhase =>
        LET member == MemberGroup(StatePhase(Was.state))
            viewer == ViewerGroup(StatePhase(Was.state))
            state_viewer == StateViewerGroup(Was.state)
            p == Saved.position
            others == OtherSignsAt(signs, p, last.id)
        IN /\ ~HoldsPosition(member, "change_position", p)
                <=> ~\E o \in others : HoldsSign(member, "change_sign", o)
           /\ ~HoldsPosition(member, "view_position", p)
                <=> ~\E o \in others : HoldsSign(member, "view_sign", o)
           /\ ~HoldsPosition(viewer, "view_position", p)
                <=> ~\E o \in others : HoldsSign(viewer, "view_sign", o)
           /\ ~HoldsPosition(state_viewer, "view_position", p)
                <=> ~\E o \in others : HoldsSign(state_viewer, "view_sign", o)

\* The only sign of its position moved from state 1 to state 3: the groups
\* of state 1 and phase 1 hold nothing on the position.
C20_Witness ==
    /\ MovedAcrossPhase
    /\ Was.state = 1 /\ Saved.state = 3
    /\ OtherSignsAt(signs, Saved.position, last.id) = {}
    /\ ~HoldsPosition(MemberGroup(1), "change_position", Saved.position)
    /\ ~HoldsPosition(MemberGroup(1), "view_position", Saved.position)
    /\ ~HoldsPosition(ViewerGroup(1), "view_position", Saved.position)
    /\ ~HoldsPosition(StateViewerGroup(1), "view_position", Saved.position)
    /\ HoldsPosition(MemberGroup(2), "change_position", Saved.position)

\* C21: permission resync is idempotent: after assign_remove_perms has been
\* applied to a sign with an old state, applying it again to the same sign
\* with the same old state leaves the sign grants and the position grants
\* exactly as the first application left them.
C21_ResyncIdempotent ==
    (last.op = "resync" /\ Exists(last.id)) =>
        LET again == AssignRemovePerms(Db, SignInit(signs[last.id]), last.old_state)
        IN /\ again.sign_perms = sign_perms
           /\ again.position_perms = position_perms

\* A resync with an old state of the phase the sign is in (the revoked groups
\* are granted again) at a position that holds another sign.
C21_Witness ==
    /\ last.op = "resync"
    /\ last.old_state # None
    /\ last.old_state # signs[last.id].state
    /\ StatePhase(last.old_state) = StatePhase(signs[last.id].state)
    /\ OtherSignsAt(signs, signs[last.id].position, last.id) # {}

\* C22: svg_as_png on a saved sign: a cache hit returns the cached bytes and
\* posts nothing to the conversion service; a miss with generate=False returns
\* the static placeholder, posts nothing and leaves the entry absent; a miss
\* with generate=True posts to the conversion service within the call.
C22_PngModes ==
    last.op = "png" =>
        LET key == <<"sign_svg_as_png", last.id>>
            hit == "sign_svg_as_png" \in last.cached
        IN /\ hit => /\ ~last.posted
                      /\ last.result.from = "cache"
                      /\ key \in DOMAIN cache /\ last.result.length = cache[key]
           /\ (~hit /\ ~last.generate) => /\ ~last.posted
                                          /\ last.result.from = "static"
                                          /\ key \notin DOMAIN cache
           /\ (~hit /\ last.generate) => /\ last.posted
                                         /\ last.result.from = "service"

\* A page asked for the PNG without generation while none was cached.
C22_Witness ==
    /\ last.op = "png"
    /\ ~last.generate
    /\ "sign_svg_as_png" \notin last.cached

\* C23: a body of 150 bytes or fewer is never stored: every 'sign_svg_as_png'
\* entry present holds a body longer than 150 bytes, and after a body of 150
\* bytes or fewer the entry is absent, so the next request posts again.
C23_ShortNeverCached ==
    /\ \A id \in SignIds :
          <<"sign_svg_as_png", id>> \in DOMAIN cache => cache[<<"sign_svg_as_png", id>>] > 150
    /\ (last.op = "png" /\ last.posted /\ last.result.length <= 150) =>
          /\ <<"sign_svg_as_png", last.id>> \notin DOMAIN cache
          /\ \A response \in Responses : SvgAsPng(cache, last.id, TRUE, response).posted

\* The conversion service answered with exactly 150 bytes while the sign of
\* another request has its PNG cached.
C23_Witness ==
    /\ last.op = "png"
    /\ last.posted
    /\ last.result.length = 150
    /\ \E id \in SignIds \ {last.id} : <<"sign_svg_as_png", id>> \in DOMAIN cache

\* A step of the save in progress.
SaveSteps == inst[1] # NoInst /\ Saving(1) /\ inst'[1] # inst[1]

\* C24: every completed save has enqueued exactly one 'sign:generate_artwork'
\* job, naming the id of the saved sign with a delay of 30 seconds, and no
\* step of a save calls the rendering service: no step of a save produces a
\* PNG entry.
C24_SaveEnqueuesJob ==
    [][SaveSteps =>
          /\ DOMAIN cache' \subseteq DOMAIN cache
          /\ inst'[1].pc = "done" =>
                /\ Cardinality({k \in DOMAIN inst'[1].log : inst'[1].log[k] = "job"}) = 1
                /\ [name |-> "sign:generate_artwork", sign_ids |-> <<inst'[1].id>>,
                    delay_seconds |-> 30] \in jobs']_vars

\* A save of a stored sign has completed while the PNG of another sign is
\* cached and the PNG of the saved sign is not.
C24_Witness ==
    /\ inst[1] # NoInst
    /\ inst[1].pc = "done"
    /\ ~inst[1].is_new
    /\ DOMAIN cache # {}
    /\ <<"sign_svg_as_png", inst[1].id>> \notin DOMAIN cache

\* The template has a g element whose id is x.
HasGroup(elements, x) ==
    \E i \in DOMAIN elements : elements[i].name = "g" /\ elements[i].id = x

\* C25: svg_code posts to the expansion service if and only if the template
\* has a g element with id "repeat" or a g element whose id is a resolved
\* attribute slug; a template with neither and with a placeholder is rendered
\* by placeholder substitution.
C25_ExpandIffGroup ==
    (last.op = "svg" /\ ~last.result.empty) =>
        LET dynamic == \/ HasGroup(last.template.elements, "repeat")
                       \/ \E k \in last.slugs : HasGroup(last.template.elements, k)
        IN /\ last.result.expanded <=> dynamic
           /\ (~dynamic /\ last.template.braces) => last.result.substituted

\* k times the character c.
Rep(c, k) == [i \in 1..k |-> c]

\* C26: the sort key of a non-empty number is its first dot-segment preceded
\* by zeros to width 15, one dot, and the rest of the number followed by zeros
\* to width 15: "7" gives "000000000000007.000000000000000", "1.11" gives
\* "000000000000001.110000000000000", "1.11.1" gives
\* "000000000000001.11.100000000000"; the empty number gives the empty key.
C26_SortKeyExamples ==
    \A i \in SignIds : Exists(i) =>
        LET n == signs[i].number
            key == signs[i].number_sort
        IN /\ n = Empty => key = Empty
           /\ n = <<"7">> => key = Rep("0", 14) \o <<"7", ".">> \o Rep("0", 15)
           /\ n = <<"1", ".", "1", "1">> =>
                 key = Rep("0", 14) \o <<"1", ".", "1", "1">> \o Rep("0", 13)
           /\ n = <<"1", ".", "1", "1", ".", "1">> =>
                 key = Rep("0", 14) \o <<"1", ".", "1", "1", ".", "1">> \o Rep("0", 11)
           /\ n # Empty =>
                 \E left \in 1..Len(n) :
                     /\ \A j \in 1..left : n[j] # "."
                     /\ left = Len(n) \/ n[left + 1] = "."
                     /\ key = Rep("0", 15 - left) \o SubSeq(n, 1, left) \o <<".">>
                               \o SubSeq(n, left + 2, Len(n))
                               \o Rep("0", 15 - (Len(n) - left - 1) + (IF left = Len(n) THEN -1 ELSE 0))

\* Signs numbered "7" and "1.11.1" are stored, one of them after having been
\* renumbered from the empty number.
C26_Witness ==
    /\ \E i \in SignIds : Exists(i) /\ signs[i].number = <<"7">>
    /\ \E i \in SignIds : Exists(i) /\ signs[i].number = <<"1", ".", "1", "1", ".", "1">>
    /\ last.op = "update" /\ last.was.number = Empty /\ signs[last.id].number # Empty

\* The signs of the numbering scope of the last request for a number.
Scope == AutoScope(signs, last.rule, last.zone, last.sign_template)

\* The largest number of the scope, a number that is no integer literal
\* counting as zero; zero for an empty scope.
Largest ==
    LET vs == {IntOrZero(signs[i].number) : i \in Scope} \cup {0}
    IN CHOOSE v \in vs : \A w \in vs : w <= v

\* C27: when auto_set_number computes the maximum from the signs of the
\* scope, every number that is not an integer literal counts as zero, and the
\* number assigned is the maximum plus one, padded with zeros to the width of
\* a number of the scope that has the maximum (unpadded when no number is
\* above zero).
C27_AutoNumber ==
    (last.op = "auto" /\ last.computed) =>
        LET found == {i \in Scope : IntLiteral(signs[i].number) /\ Largest > 0
                                      /\ ParseInt(signs[i].number) = Largest}
        IN IF found = {}
           THEN last.number = ToStr(Largest + 1)
           ELSE \E i \in found :
                   last.number = Zfill(ToStr(Largest + 1), Len(signs[i].number))

\* The number was computed over a scope with a padded integer and a number
\* that is no integer.
C27_Witness ==
    /\ last.op = "auto"
    /\ last.computed
    /\ \E i \in Scope : ~IntLiteral(signs[i].number)
    /\ \E i \in Scope : signs[i].number = <<"0", "9">>

\* C28: a save that does not change the state of a sign leaves review_state
\* as the caller set it, also when the instance saved is one that an earlier
\* save of a state change has used.
C28_ReviewKept ==
    (/\ last.op \in {"update", "resave"}
     /\ Was.state = Saved.state)
    => Saved.review_state = last.review

\* C29: after any sequence of saves and deletions of signs, a sign with a
\* conflict flag set has at least one other stored sign of its project that
\* shares the tuple of the flag's scope.
C29_FlaggedHasSibling ==
    \A i \in SignIds : \A k \in Scopes :
        (Exists(i) /\ GetFlag(signs[i], k)) => Sharing(signs, i, k) # {}

\* C30: a save of a sign through the form terminates, and the saves of
\* siblings that its conflict rescan issues issue no saves themselves: the
\* nesting of saves under it is at most one level deep.
C30_SaveTerminatesShallow ==
    last.op \in {"create", "update"} => (~last.raised /\ last.nested <= 1)

====
